---- MODULE Spec2Model ----
(***************************************************************************)
(* Model of app.py: the /generate_feed endpoint (create_feed and           *)
(* generate_rss_feed), the /get_feed endpoint (get_feed) and the feed      *)
(* storage directory they share.                                           *)
(*                                                                         *)
(* Text values are strings; Absent marks an element or key that is not     *)
(* there.  File names, references and uuid tokens are sequences of         *)
(* one-character strings so that secure_filename can be computed on them.  *)
(***************************************************************************)
EXTENDS Integers, Sequences, FiniteSets, TLC

VARIABLES
    workload,     \* which client workload this behaviour draws its inputs from
    callsLeft,    \* generate requests the clients will still send
    pc,           \* position of the generate request in flight
    urls,         \* generate_rss_feed: the source list
    feed_title,   \* generate_rss_feed: the title
    idx,          \* position of the for loop over urls (next source to fetch)
    channel,      \* the item children of the channel element, in order
    items_found,  \* the items_found flag
    fetched,      \* what the transport returned so far, one record per fetch
    resp,         \* the last response the server sent
    files,        \* FEED_STORAGE_DIR: file name -> content
    issued,       \* file name -> content, for every successful generate
    uuidCount     \* number of uuid4() calls so far

vars == <<workload, callsLeft, pc, urls, feed_title, idx, channel, items_found,
          fetched, resp, files, issued, uuidCount>>

-----------------------------------------------------------------------------
(* Bounds *)

MaxUrls == 2      \* longest source list of a request
MaxItems == 3     \* most items and entries the sources of one request hold
MaxCalls == 2     \* generate requests of the repeated workload

-----------------------------------------------------------------------------
(* Values *)

Absent == "<absent>"
NoGuid == << >>
NonText == "<number 123>"          \* a JSON number given where text is expected
DefaultTitle == "Generated RSS Feed"
Urls == {"u1", "u2"}

IsText(v) == v # NonText
Truthy(v) == v # "" /\ v # Absent
NonEmpty(v) == v # "" /\ v # Absent

SeqsUpTo(S, n) == UNION {[1..k -> S] : k \in 0..n}

\* uuid.uuid4(): a token never returned before (collisions of 122 random bits
\* are not modelled); the k-th call returns Uuid(k).
Uuid(k) == <<"u", ToString(k)>>

FileName(u) == u \o <<".", "x", "m", "l">>

-----------------------------------------------------------------------------
(* What the transport can return for one fetch.  An element is one item of *)
(* a structured feed or one entry feedparser discovers in a page; n is its *)
(* place in the fetched document.                                          *)

xml_patterns == {"xmldecl", "rss", "feed", "channel"}

FullElem(j) ==
    [n |-> j, title |-> "t" \o ToString(j), link |-> "l" \o ToString(j),
     description |-> "d" \o ToString(j), guid |-> <<"g", ToString(j)>>,
     date |-> "valid"]

BareElem(j) ==
    [n |-> j, title |-> Absent, link |-> Absent, description |-> Absent,
     guid |-> NoGuid, date |-> Absent]

\* An entry whose date tuple the datetime constructor rejects.
BadDateElem(j) == [FullElem(j) EXCEPT !.date = "invalid"]

FullElems(k) == [j \in 1..k |-> FullElem(j)]
BareElems(k) == [j \in 1..k |-> BareElem(j)]
BadAt(k, b) == [j \in 1..k |-> IF j = b THEN BadDateElem(j) ELSE FullElem(j)]

Failure(kind) ==
    [status |-> kind, sig |-> "none", wellformed |-> FALSE, elems |-> << >>]
Fetched(sig, wf, elems) ==
    [status |-> "ok", sig |-> sig, wellformed |-> wf, elems |-> elems]

FetchFailures == {Failure("neterr"), Failure("badstatus")}

\* Structured documents: a declaration followed by garbage, an Atom feed and
\* a bare channel (no item elements), RSS feeds of k items, and an RSS feed
\* whose one item has no children.
XmlResponses ==
    {Fetched("xmldecl", FALSE, << >>), Fetched("feed", TRUE, << >>),
     Fetched("channel", TRUE, << >>)}
    \cup {Fetched("rss", TRUE, FullElems(k)) : k \in 0..MaxItems}
    \cup {Fetched("rss", TRUE, BareElems(1))}

\* Pages: k discovered entries with their fields, one entry without any, or
\* k entries the first or the last of which carries a date the conversion
\* rejects.
PageResponses ==
    {Fetched("none", TRUE, FullElems(k)) : k \in 0..MaxItems}
    \cup {Fetched("none", TRUE, BareElems(1))}
    \cup UNION {{Fetched("none", TRUE, BadAt(k, b)) : b \in {1, k}} : k \in 1..MaxItems}

Responses(w) ==
    IF w = "single"
    THEN FetchFailures \cup XmlResponses \cup PageResponses
    ELSE {Failure("neterr"), Fetched("none", TRUE, FullElems(1))}

\* The JSON payloads clients post to /generate_feed.
Payload(hasUrl, kind, val, title) ==
    [hasUrl |-> hasUrl, kind |-> kind, val |-> val, title |-> title]

Payloads(w) ==
    IF w = "single"
    THEN {Payload(FALSE, "list", << >>, Absent)}
         \cup {Payload(TRUE, "str", <<u>>, t) : u \in Urls, t \in {Absent, "", NonText}}
         \cup {Payload(TRUE, "list", us, t) :
                  us \in SeqsUpTo(Urls, MaxUrls), t \in {Absent, "", NonText}}
    ELSE {Payload(FALSE, "list", << >>, Absent)}
         \cup {Payload(TRUE, "list", <<"u1">>, t) : t \in {Absent, NonText}}

-----------------------------------------------------------------------------
(* is_xml_content *)

is_xml_content(content) == \E pattern \in xml_patterns : content.sig = pattern

-----------------------------------------------------------------------------
(* Items *)

Item(kind, src, n, title, link, description, guid, creator) ==
    [kind |-> kind, src |-> src, n |-> n, title |-> title, link |-> link,
     description |-> description, guid |-> guid, creator |-> creator]

\* create_default_item; uuid is the token uuid4() returns.
create_default_item(source_url, title, uuid) ==
    Item("default", 0, 0,
         IF Truthy(title) THEN title ELSE "Feed from " \o source_url,
         source_url,
         "No items found for feed: " \o source_url,
         uuid, "system")

\* An item element of a structured feed, appended as it is.
CopiedItem(e, pos) ==
    Item("copied", pos, e.n, e.title, e.link, e.description, e.guid, Absent)

Get(v, default) == IF v = Absent THEN default ELSE v

EntryGuid(url) == <<"657061 at ", url>>

\* A page entry normalised by lines 137-164.
EntryItem(e, url, pos) ==
    Item("entry", pos, e.n, Get(e.title, "No Title"), Get(e.link, url),
         Get(e.description, "No description"), EntryGuid(url), "admin")

\* The item left in the channel when line 152 raises: title, link and
\* description are set, pubDate, creator and guid are not.
PartialItem(e, url, pos) ==
    Item("partial", pos, e.n, Get(e.title, "No Title"), Get(e.link, url),
         Get(e.description, "No description"), NoGuid, Absent)

State(chan, found) == [channel |-> chan, items_found |-> found]

\* A variant that inserts each copied item at the front of the channel.
RECURSIVE PrependItems(_, _, _, _)
PrependItems(chan, found, elems, pos) ==
    IF elems = << >> THEN State(chan, found)
    ELSE PrependItems(<<CopiedItem(Head(elems), pos)>> \o chan, TRUE, Tail(elems), pos)

\* for item in found_items: channel.append(item); items_found = True
RECURSIVE CopyItems(_, _, _, _)
CopyItems(chan, found, elems, pos) ==
    IF elems = << >> THEN State(chan, found)
    ELSE CopyItems(Append(chan, CopiedItem(Head(elems), pos)), TRUE, Tail(elems), pos)

\* for entry in parsed_feed.entries: ...; an exception ends the loop with the
\* item element already attached and items_found not yet set for it.
RECURSIVE AddEntries(_, _, _, _, _)
AddEntries(chan, found, entries, url, pos) ==
    IF entries = << >> THEN State(chan, found)
    ELSE IF Head(entries).date = "invalid"
         THEN State(Append(chan, PartialItem(Head(entries), url, pos)), found)
         ELSE AddEntries(Append(chan, EntryItem(Head(entries), url, pos)), TRUE,
                         Tail(entries), url, pos)

\* The body of the inner try for one source.
ProcessSource(chan, found, url, pos, r) ==
    IF r.status # "ok" THEN State(chan, found)
    ELSE IF is_xml_content(r)
         THEN IF r.wellformed THEN CopyItems(chan, found, r.elems, pos)
              ELSE State(chan, found)
         ELSE AddEntries(chan, found, r.elems, url, pos)

\* Whether the inner try ended in its except clause.
SourceFailed(r) ==
    \/ r.status # "ok"
    \/ is_xml_content(r) /\ ~r.wellformed
    \/ ~is_xml_content(r) /\ \E j \in 1..Len(r.elems) : r.elems[j].date = "invalid"

\* What the transport returned for one source, as the loop saw it.
Record(url, r) ==
    [url |-> url,
     kind |-> IF r.status # "ok" THEN "failed"
              ELSE IF is_xml_content(r) THEN "xml" ELSE "page",
     ok |-> ~SourceFailed(r),
     elems |-> r.elems]

\* A variant in which a failed source ends the loop.
AbortOnFailure(i, failed) == IF failed THEN i + MaxUrls ELSE i + 1

\* The for loop moves to the next source whatever the outcome of this one.
Advance(i, failed) == i + 1

\* A variant that anchors the placeholder to the last source.
LastSource(us) == us[Len(us)]

\* The source the placeholder is anchored to (urls[0], line 174).
FallbackSource(us) == us[1]

\* A variant without the fallback.
NeverDefault(found) == FALSE

\* if not items_found (line 173)
NeedsDefault(found) == ~found

-----------------------------------------------------------------------------
(* The document and its serialisation *)

Document(us, title, chan) ==
    [complete |-> TRUE, base |-> us[1], title |-> title, link |-> us[1],
     description |-> Len(us), items |-> chan]

\* ElementTree serialises text only; anything else raises TypeError.
Serializable(doc) ==
    /\ IsText(doc.title)
    /\ \A j \in 1..Len(doc.items) : IsText(doc.items[j].title)

\* What tree.write leaves in the file it opened when serialisation raises at
\* the channel title: the declaration and the opening tags.
Truncated(doc) ==
    [complete |-> FALSE, base |-> doc.base, title |-> Absent, link |-> Absent,
     description |-> 0, items |-> << >>]

\* The state of the storage directory after tree.write(feed_path, ...).
\* The storage directory after tree.write(feed_path, ...): open() raises
\* before creating anything when the directory is not writable; a
\* serialisation error is raised with the file already created.
Written(fs, name, doc, canWrite) ==
    IF ~canWrite THEN fs
    ELSE IF Serializable(doc) THEN fs @@ (name :> doc)
    ELSE fs @@ (name :> Truncated(doc))

-----------------------------------------------------------------------------
(* secure_filename (werkzeug), on sequences of characters *)

NonAscii == {"é"}
Separators == {"/"}
Whitespace == {" "}
Unsafe == {"!"}            \* ASCII characters outside [A-Za-z0-9_.-]
Strippable == {".", "_"}

DropChars(s, S) == SelectSeq(s, LAMBDA c : c \notin S)

ReplaceChars(s, S, by) == [j \in 1..Len(s) |-> IF s[j] \in S THEN by ELSE s[j]]

\* "_".join(filename.split())
RECURSIVE JoinWords(_, _, _)
JoinWords(s, out, pendingGap) ==
    IF s = << >> THEN out
    ELSE IF Head(s) \in Whitespace
         THEN JoinWords(Tail(s), out, out # << >>)
         ELSE JoinWords(Tail(s),
                        (IF pendingGap THEN Append(out, "_") ELSE out) \o <<Head(s)>>,
                        FALSE)

RECURSIVE LStrip(_, _)
LStrip(s, S) == IF s # << >> /\ Head(s) \in S THEN LStrip(Tail(s), S) ELSE s

RECURSIVE RStrip(_, _)
RStrip(s, S) ==
    IF s # << >> /\ s[Len(s)] \in S THEN RStrip(SubSeq(s, 1, Len(s) - 1), S) ELSE s

secure_filename(filename) ==
    LET ascii == DropChars(filename, NonAscii)
        spaced == ReplaceChars(ascii, Separators, " ")
        joined == JoinWords(spaced, << >>, FALSE)
        kept == DropChars(joined, Unsafe)
    IN RStrip(LStrip(kept, Strippable), Strippable)

\* os.path.exists(os.path.join(FEED_STORAGE_DIR, name)): the empty name is the
\* storage directory itself.
PathExists(fs, name) == name = << >> \/ name \in DOMAIN fs

IsFile(fs, name) == name \in DOMAIN fs

\* The references clients ask /get_feed for.
References(w, n) ==
    LET names == {FileName(Uuid(k)) : k \in 1..n}
    IN IF w = "single" THEN {<<"z", ".", "x", "m", "l">>}
       ELSE names
            \cup {<<"_">> \o f : f \in names}
            \cup {<<"é">> \o f \o <<".">> : f \in names}
            \cup {<<"_">>, <<" ", ".", ".">>, <<"z", ".", "x", "m", "l">>}

-----------------------------------------------------------------------------
(* Responses *)

NoBody == Truncated(Document(<<"">>, "", << >>))
Response(op, status, ref, body) ==
    [op |-> op, status |-> status, ref |-> ref, body |-> body, error |-> ""]
NoResponse == Response("none", 0, << >>, NoBody)

\* create_feed's except clause: a 500 whose body carries str(e).
ErrorResponse(e) == [Response("generate", 500, << >>, NoBody) EXCEPT !.error = e]

\* The exception tree.write raises, if any.
WriteError(doc, canWrite) ==
    IF ~canWrite THEN "OSError"
    ELSE IF ~Serializable(doc) THEN "TypeError" ELSE ""

-----------------------------------------------------------------------------
(* Actions *)

TypeOK ==
    /\ workload \in {"single", "repeated"}
    /\ callsLeft \in Nat
    /\ pc \in {"idle", "loop", "fallback", "write"}
    /\ items_found \in BOOLEAN
    /\ uuidCount \in Nat
    /\ Len(urls) <= MaxUrls
    /\ Len(channel) <= MaxItems + 1

InitCommon ==
    /\ pc = "idle"
    /\ urls = << >>
    /\ feed_title = Absent
    /\ idx = 1
    /\ channel = << >>
    /\ items_found = FALSE
    /\ fetched = << >>
    /\ resp = NoResponse
    /\ files = << >>
    /\ issued = << >>
    /\ uuidCount = 0

\* One generate request, inputs drawn from the full sets.
Init ==
    /\ workload = "single"
    /\ callsLeft = 1
    /\ InitCommon

\* Repeated generate requests over a small set of inputs.
InitStore ==
    /\ workload = "repeated"
    /\ callsLeft = MaxCalls
    /\ InitCommon

\* create_feed up to the call of generate_rss_feed, and generate_rss_feed up
\* to the loop (lines 203-216, 87-109).  urls[0] on an empty list raises
\* IndexError outside the try of generate_rss_feed; create_feed turns it
\* into a 500.
CreateFeed(data) ==
    /\ pc = "idle"
    /\ callsLeft > 0
    /\ callsLeft' = callsLeft - 1
    /\ fetched' = << >>
    /\ channel' = << >>
    /\ items_found' = FALSE
    /\ idx' = 1
    /\ IF ~data.hasUrl
       THEN /\ resp' = Response("generate", 400, << >>, NoBody)
            /\ UNCHANGED <<pc, urls, feed_title>>
       ELSE /\ urls' = data.val
            /\ feed_title' = Get(data.title, DefaultTitle)
            /\ IF data.val = << >>
               THEN /\ resp' = ErrorResponse("IndexError")
                    /\ pc' = "idle"
               ELSE /\ resp' = NoResponse
                    /\ pc' = "loop"
    /\ UNCHANGED <<workload, files, issued, uuidCount>>

\* One iteration of "for url in urls" (lines 117-170).
ProcessUrl(r) ==
    /\ pc = "loop"
    /\ idx <= Len(urls)
    /\ Len(channel) + Len(r.elems) <= MaxItems
    /\ LET after == ProcessSource(channel, items_found, urls[idx], idx, r)
           next == Advance(idx, SourceFailed(r))
       IN /\ channel' = after.channel
          /\ items_found' = after.items_found
          /\ fetched' = Append(fetched, Record(urls[idx], r))
          /\ idx' = next
          /\ pc' = IF next > Len(urls) THEN "fallback" ELSE "loop"
    /\ UNCHANGED <<workload, callsLeft, urls, feed_title, resp, files, issued,
                   uuidCount>>

\* Lines 172-175.
Fallback ==
    /\ pc = "fallback"
    /\ IF NeedsDefault(items_found)
       THEN /\ channel' = Append(channel,
                   create_default_item(FallbackSource(urls), feed_title,
                                       Uuid(uuidCount + 1)))
            /\ uuidCount' = uuidCount + 1
       ELSE UNCHANGED <<channel, uuidCount>>
    /\ pc' = "write"
    /\ UNCHANGED <<workload, callsLeft, urls, feed_title, idx, items_found,
                   fetched, resp, files, issued>>

\* Lines 181-189 and the rest of create_feed (lines 220-232); canWrite says
\* whether FEED_STORAGE_DIR accepts a new file at this moment.
WriteFeed(canWrite) ==
    /\ pc = "write"
    /\ LET name == FileName(Uuid(uuidCount + 1))
           doc == Document(urls, feed_title, channel)
       IN /\ files' = Written(files, name, doc, canWrite)
          /\ IF WriteError(doc, canWrite) # ""
             THEN /\ resp' = ErrorResponse(WriteError(doc, canWrite))
                  /\ UNCHANGED issued
             ELSE /\ resp' = Response("generate", 200, name, NoBody)
                  /\ issued' = issued @@ (name :> doc)
    /\ uuidCount' = uuidCount + 1
    /\ pc' = "idle"
    /\ UNCHANGED <<workload, callsLeft, urls, feed_title, idx, channel,
                   items_found, fetched>>

\* get_feed (lines 242-265).  send_from_directory raises NotFound for a path
\* that is not a file, which the except clause turns into a 500.  Requests
\* are served one at a time, so a retrieval runs between generate requests.
GetFeed(filename) ==
    /\ pc = "idle"
    /\ LET secure_name == secure_filename(filename)
       IN resp' =
            IF ~PathExists(files, secure_name)
            THEN Response("get", 404, filename, NoBody)
            ELSE IF IsFile(files, secure_name)
                 THEN Response("get", 200, filename, files[secure_name])
                 ELSE Response("get", 500, filename, NoBody)
    /\ UNCHANGED <<workload, callsLeft, pc, urls, feed_title, idx, channel,
                   items_found, fetched, files, issued, uuidCount>>

Next ==
    \/ \E data \in Payloads(workload) : CreateFeed(data)
    \/ \E r \in Responses(workload) : ProcessUrl(r)
    \/ Fallback
    \/ \E canWrite \in BOOLEAN : WriteFeed(canWrite)
    \/ \E filename \in References(workload, uuidCount) : GetFeed(filename)

Spec == Init /\ [][Next]_vars

SpecStore == InitStore /\ [][Next]_vars

-----------------------------------------------------------------------------
(* Properties *)

WrittenDocs == {files[f] : f \in {g \in DOMAIN files : files[g].complete}}

\* The generate request has returned and its response is still the last one.
Returned(status) == pc = "idle" /\ resp.op = "generate" /\ resp.status = status

LoopOver == pc \in {"fallback", "write"} \/ Returned(200) \/ (Returned(500) /\ urls # << >>)

AllFetchesFailed ==
    /\ urls # << >>
    /\ Len(fetched) = Len(urls)
    /\ \A k \in 1..Len(fetched) : fetched[k].kind = "failed"

ItemsOf(chan, p) == SelectSeq(chan, LAMBDA it : it.src = p)

Extracted(chan) == SelectSeq(chan, LAMBDA it : it.kind # "default")

HasDefault(chan) == \E j \in 1..Len(chan) : chan[j].kind = "default"

\* C1: every document written to storage holds at least one item.
C1_DocumentNeverEmpty ==
    \A doc \in WrittenDocs : Len(doc.items) >= 1

\* A document was written for a request whose first source failed to fetch
\* and whose second source was a structured feed without items.
C1_Witness ==
    /\ Returned(200)
    /\ Len(fetched) = 2
    /\ fetched[1].kind = "failed"
    /\ fetched[2].kind = "xml" /\ fetched[2].elems = << >>
    /\ files[resp.ref].complete
    /\ Len(files[resp.ref].items) = 1

\* C2: when every source of a non-empty list fails to fetch, the aggregation
\* does not fail (an error can only come from writing the file) and the
\* document holds exactly one item, the placeholder, whose link is the first
\* source and whose description names it.
C2_AllFailedGivesOnePlaceholder ==
    AllFetchesFailed =>
        /\ pc = "write" \/ Returned(200) =>
              /\ Len(channel) = 1
              /\ channel[1].kind = "default"
              /\ channel[1].link = urls[1]
              /\ channel[1].description = "No items found for feed: " \o urls[1]
        /\ Returned(200) =>
              /\ resp.ref \in DOMAIN files
              /\ files[resp.ref].complete
              /\ files[resp.ref].items = channel
        /\ Returned(500) => resp.error \in {"OSError", "TypeError"}
        /\ Returned(500) /\ IsText(feed_title) => resp.error = "OSError"

\* Two different sources both failed to fetch and the document was written.
C2_Witness ==
    /\ Returned(200)
    /\ AllFetchesFailed
    /\ Len(urls) = 2
    /\ urls[1] # urls[2]
    /\ fetched[1].kind = "failed" /\ fetched[2].kind = "failed"
    /\ files[resp.ref].items[1].link = urls[1]

\* C3: a source that fails does not end the batch: the sources are fetched
\* once each, in list order, all of them by the end of the loop, and the
\* request ends with a written document unless writing the file itself fails.
C3_FailureDoesNotAbortBatch ==
    /\ Len(fetched) <= Len(urls)
    /\ \A k \in 1..Len(fetched) : fetched[k].url = urls[k]
    /\ pc = "loop" => Len(fetched) = idx - 1
    /\ LoopOver => Len(fetched) = Len(urls)
    /\ Returned(500) /\ urls # << >> => resp.error \in {"OSError", "TypeError"}
    /\ Returned(500) /\ IsText(feed_title) /\ urls # << >> => resp.error = "OSError"
    /\ Returned(200) => resp.ref \in DOMAIN files /\ files[resp.ref].complete

\* The first source failed, the second one was fetched and gave items, and
\* the document was written.
C3_Witness ==
    /\ Returned(200)
    /\ Len(fetched) = 2
    /\ ~fetched[1].ok
    /\ fetched[2].ok /\ fetched[2].elems # << >>
    /\ Len(Extracted(files[resp.ref].items)) = Len(fetched[2].elems)

SameFields(it, e) ==
    /\ it.n = e.n
    /\ it.title = e.title
    /\ it.link = e.link
    /\ it.description = e.description
    /\ it.guid = e.guid

\* How many entries of a page the loop attaches: all of them, or those up to
\* and including the first one whose conversion raises.
Attached(elems) ==
    IF \E j \in 1..Len(elems) : elems[j].date = "invalid"
    THEN CHOOSE j \in 1..Len(elems) :
            /\ elems[j].date = "invalid"
            /\ \A i \in 1..(j - 1) : elems[i].date # "invalid"
    ELSE Len(elems)

C5_GuidsUnique ==
    \A doc \in WrittenDocs :
        \A i \in 1..Len(doc.items) : \A j \in 1..Len(doc.items) :
            i # j /\ doc.items[i].guid # NoGuid =>
                doc.items[i].guid # doc.items[j].guid

\* C6: every item of a written document has a non-empty title, link and
\* description.
C6_FieldsNonEmpty ==
    \A doc \in WrittenDocs :
        \A j \in 1..Len(doc.items) :
            /\ NonEmpty(doc.items[j].title)
            /\ NonEmpty(doc.items[j].link)
            /\ NonEmpty(doc.items[j].description)

\* C7: a generate request answered with an error leaves the storage
\* directory as it was.
C7_FailureLeavesStorageUnchanged ==
    [][resp'.op = "generate" /\ resp'.status = 500 /\ pc' = "idle" /\ pc # "idle"
          => files' = files]_vars

\* C8: retrieving a reference a successful generate returned gives the
\* stored document; retrieving any other reference gives 404.
C8_RetrieveIssuedOrNotFound ==
    resp.op = "get" =>
        IF resp.ref \in DOMAIN issued
        THEN resp.status = 200 /\ resp.body = issued[resp.ref]
        ELSE resp.status = 404

\* C9: a request with an empty source list is answered with a validation
\* error or a document; it does not end in a server error.
C9_EmptyListHandled ==
    resp.op = "generate" /\ urls = << >> => resp.status # 500

\* C10: after the loop items_found is true exactly when the channel holds an
\* item, and a placeholder in the channel is its only item.
C10_PlaceholderOnlyAlone ==
    /\ pc = "fallback" => (items_found <=> channel # << >>)
    /\ HasDefault(channel) => Len(channel) = 1
    /\ \A doc \in WrittenDocs : HasDefault(doc.items) => Len(doc.items) = 1

====
